---- MODULE Spec2Model ----
(***************************************************************************)
(* tensor_types: shape- and kind-checked wrappers around tch::Tensor.     *)
(*                                                                         *)
(* Two wrapper variants are modelled:                                      *)
(*   - the global-registry variant generated by the tensor_type! proc      *)
(*     macro (tensor_types_proc/src/lib.rs): per-type statics INIT (Once), *)
(*     DIMS and KIND (Mutex), and set / new / get_dims / get_kind /        *)
(*     is_initialized / apply / clone / into_inner / tensor;               *)
(*   - the explicit-params variant generated by the tensor_type!           *)
(*     macro_rules macro (src/tensor_types.rs): new / apply_fn / clone /   *)
(*     into_inner / tensor / tensor_mut and the public tensor field, each  *)
(*     call taking a params record; a second type of this variant declares *)
(*     its fields twice, a third is declared like the global one.          *)
(* The parameter types of parameter_type! (src/parameter_types.rs) carry   *)
(* the dimension values; a program with two global wrapper types has one   *)
(* set of statics per type.                                                *)
(*                                                                         *)
(* Calls are made by threads.  A call of the global variant is split at    *)
(* its synchronisation points (the reads of INIT, the lock() calls on      *)
(* KIND and DIMS, call_once); a call of the explicit-params variant        *)
(* touches no shared state and is one step.                                *)
(***************************************************************************)
EXTENDS Integers, Sequences, FiniteSets, TLC

\* ------------------------------------------------------------- bounds
\* Threads of a multi-threaded run.
NThreads == 2
\* Dimension values are 1..MaxDim.
MaxDim == 2
\* The i64 values converted to and from a parameter type are -MaxParam..MaxParam.
MaxParam == 20

\* ------------------------------------------------- the declared types
\* tensor_type!(TransformerOutput, [BatchSize, SequenceLength], Kind::Float)
GlobalName == "TransformerOutput"
TypesLen == 2
GlobalKind == "Float"
\* tensor_type!(MyTensor, [my_param1, my_param2], Params, tch::Kind::Double)
ExplicitName == "MyTensor"
Fields == <<"my_param1", "my_param2">>
ExplicitKind == "Double"

Kinds == {"Float", "Double"}
Dim == 1..MaxDim
Data == {0, 1}
Threads == 1..NThreads
\* The wrapper instances alive at once: an instance and its clone or apply result.
Handles == {1, 2}

\* parameter_type!(P, i64): pub struct P(pub i64)
\* impl From<i64> for P: P(val)
ParamFrom(n) == [inner |-> n]
\* Mutant: the value goes through an unsigned type and loses its sign.
ParamIntoMagnitude(p) == IF p.inner < 0 THEN 0 - p.inner ELSE p.inner

\* impl From<P> for i64: val.0
ParamInto(p) == p.inner
\* impl Deref for P: &self.0
ParamDeref(p) == p.inner
ParamValues == {ParamFrom(n) : n \in Dim}

\* The argument tuples of set(x0, x1, ...): one parameter value per type.
SetArgs == [1..TypesLen -> ParamValues]
\* The params records of the explicit-params variant.
ParamsRecords == [{Fields[i] : i \in 1..Len(Fields)} -> ParamValues]

\* Shapes of the arrays handed to the wrappers: of the declared rank and shorter.
ShapesOfRank(n) == [1..n -> Dim]
Shapes == UNION {ShapesOfRank(n) : n \in (TypesLen - 1)..TypesLen}
AllTensors == [shape : Shapes, kind : Kinds, data : Data]

\* Inputs of the multi-threaded runs: the first dimension is 1.
ConcSetArgs == {a \in SetArgs : ParamInto(a[1]) = 1}
ConcTensors == {x \in AllTensors : Len(x.shape) = TypesLen /\ x.shape[1] = 1 /\ x.data = 0}

\* -------------------------------------------------------------- state
VARIABLES
    INIT,       \* the Once: "incomplete", "running" (a closure runs), "complete"
    DIMS,       \* the array guarded by the DIMS mutex
    dimsLock,   \* the thread holding the DIMS mutex, 0 when free
    kindLock,   \* the thread holding the KIND mutex, 0 when free
    pc,         \* each thread's position
    call,       \* each thread's call in progress: operation and arguments
    ret,        \* each thread's returned value, until the thread takes it
    inst,       \* the live wrapper instances: handle -> variant and storage
    store,      \* the array storages the instances wrap
    okSets,     \* history: the set calls that have returned Ok, in order, <<thread, args>>
    variant     \* what the program uses: "G" (global wrapper type), "E" (explicit),
                \* "R" (explicit, fields declared twice), "P" (parameter types alone),
                \* "T" (two global wrapper types)

vars == <<INIT, DIMS, dimsLock, kindLock, pc, call, ret, inst, store, okSets, variant>>

NoCall == [op |-> "none"]
NoRet == [tag |-> "none"]
NoInst == [ty |-> "none"]
NoTensor == [kind |-> "none"]

\* ------------------------------------------------------------- errors
AlreadyInitialized(name) == [tag |-> "AlreadyInitialized", type_name |-> name]
Uninitialized(name) == [tag |-> "Uninitialized", type_name |-> name]
ShapeMismatch(name, exp, fnd) ==
    [tag |-> "ShapeMismatch", type_name |-> name, expected |-> exp, found |-> fnd]
KindMismatch(name, exp, fnd) ==
    [tag |-> "KindMismatch", type_name |-> name, expected |-> exp, found |-> fnd]
Pass == [tag |-> "Pass"]

\* -------------------------------------------------- instances, storage
FreeHandles == {h \in Handles : inst[h] = NoInst}
FreeStores == {s \in Handles : store[s] = NoTensor}
LiveOf(ty) == {h \in Handles : inst[h] # NoInst /\ inst[h].ty = ty}
Min(S) == CHOOSE x \in S : \A y \in S : x <= y
TensorOf(h) == store[inst[h].st]
\* Calls in progress that will or may build an instance.
Building == {u \in Threads : pc[u] \in {"new_check", "new_kind", "new_dims"}}
CanBuild == Cardinality(FreeHandles) > Cardinality(Building)
\* Handles borrowed (&self) by a call in progress.
Borrowed == {call[u].h : u \in {v \in Threads : call[v].op = "apply" /\ pc[v] # "ret"}}

\* Ok(Self { tensor }): a new instance of variant ty owning a new storage.
Wrap(ty, tensor, h) ==
    LET s == Min(FreeStores) IN
    /\ inst' = [inst EXCEPT ![h] = [ty |-> ty, st |-> s]]
    /\ store' = [store EXCEPT ![s] = tensor]

Finish(t, r) ==
    /\ pc' = [pc EXCEPT ![t] = "ret"]
    /\ ret' = [ret EXCEPT ![t] = r]

Goto(t, where) ==
    /\ pc' = [pc EXCEPT ![t] = where]
    /\ UNCHANGED ret

\* ---------------------------------------------- global variant: queries
\* is_initialized(): INIT.is_completed()
IsCompleted == INIT = "complete"

IsInitialized(t) ==
    /\ pc[t] = "idle"
    /\ variant = "G"
    /\ call' = [call EXCEPT ![t] = [op |-> "is_initialized"]]
    /\ Finish(t, [tag |-> "Bool", value |-> IsCompleted])
    /\ UNCHANGED <<INIT, DIMS, dimsLock, kindLock, inst, store, okSets, variant>>

\* Mutant: get_dims reads DIMS without looking at INIT.
CallGetDimsNoCheck(t) ==
    /\ pc[t] = "idle"
    /\ variant = "G"
    /\ call' = [call EXCEPT ![t] = [op |-> "get_dims"]]
    /\ Goto(t, "get_dims_lock")
    /\ UNCHANGED <<INIT, DIMS, dimsLock, kindLock, inst, store, okSets, variant>>

\* get_dims(): if Self::is_initialized() { Some(DIMS.lock().unwrap().to_vec()) } else { None }
CallGetDims(t) ==
    /\ pc[t] = "idle"
    /\ variant = "G"
    /\ call' = [call EXCEPT ![t] = [op |-> "get_dims"]]
    /\ IF IsCompleted THEN Goto(t, "get_dims_lock") ELSE Finish(t, [tag |-> "None"])
    /\ UNCHANGED <<INIT, DIMS, dimsLock, kindLock, inst, store, okSets, variant>>

\* Mutant: the stored shape is handed out last dimension first.
GetDimsLockReversed(t) ==
    /\ pc[t] = "get_dims_lock"
    /\ dimsLock = 0
    /\ Finish(t, [tag |-> "Some", value |-> [i \in 1..TypesLen |-> DIMS[TypesLen + 1 - i]]])
    /\ UNCHANGED <<INIT, DIMS, dimsLock, kindLock, call, inst, store, okSets, variant>>

GetDimsLock(t) ==
    /\ pc[t] = "get_dims_lock"
    /\ dimsLock = 0
    /\ Finish(t, [tag |-> "Some", value |-> DIMS])
    /\ UNCHANGED <<INIT, DIMS, dimsLock, kindLock, call, inst, store, okSets, variant>>

\* get_kind(): if Self::is_initialized() { Some(*KIND.lock().unwrap()) } else { None }
CallGetKind(t) ==
    /\ pc[t] = "idle"
    /\ variant = "G"
    /\ call' = [call EXCEPT ![t] = [op |-> "get_kind"]]
    /\ IF IsCompleted THEN Goto(t, "get_kind_lock") ELSE Finish(t, [tag |-> "None"])
    /\ UNCHANGED <<INIT, DIMS, dimsLock, kindLock, inst, store, okSets, variant>>

GetKindLock(t) ==
    /\ pc[t] = "get_kind_lock"
    /\ kindLock = 0
    /\ Finish(t, [tag |-> "Some", value |-> GlobalKind])
    /\ UNCHANGED <<INIT, DIMS, dimsLock, kindLock, call, inst, store, okSets, variant>>

\* ------------------------------------------------- global variant: set
CallSet(t, args) ==
    /\ pc[t] = "idle"
    /\ variant = "G"
    /\ call' = [call EXCEPT ![t] = [op |-> "set", args |-> args]]
    /\ Goto(t, "set_check")
    /\ UNCHANGED <<INIT, DIMS, dimsLock, kindLock, inst, store, okSets, variant>>

SetReturnsOk(t) ==
    /\ Finish(t, [tag |-> "Ok"])
    /\ okSets' = Append(okSets, <<t, call[t].args>>)

\* Mutant: a set on a completed registry starts the initialization over.
SetCheckResets(t) ==
    /\ pc[t] = "set_check"
    /\ INIT' = IF IsCompleted THEN "incomplete" ELSE INIT
    /\ Goto(t, "set_once")
    /\ UNCHANGED <<DIMS, dimsLock, kindLock, call, inst, store, okSets, variant>>

\* Mutant: set never reports AlreadyInitialized.
SetCheckNeverFails(t) ==
    /\ pc[t] = "set_check"
    /\ Goto(t, "set_once")
    /\ UNCHANGED <<INIT, DIMS, dimsLock, kindLock, call, inst, store, okSets, variant>>

\* if INIT.is_completed() { return Err(AlreadyInitialized { .. }) }
SetCheck(t) ==
    /\ pc[t] = "set_check"
    /\ IF IsCompleted
       THEN Finish(t, AlreadyInitialized(GlobalName))
       ELSE Goto(t, "set_once")
    /\ UNCHANGED <<INIT, DIMS, dimsLock, kindLock, call, inst, store, okSets, variant>>

\* Mutant: the closure runs again on a completed Once (a later set overwrites).
SetCallOnceReruns(t) ==
    /\ pc[t] = "set_once"
    /\ INIT \in {"incomplete", "complete"}
    /\ INIT' = "running"
    /\ Goto(t, "set_closure")
    /\ UNCHANGED <<DIMS, dimsLock, kindLock, call, inst, store, okSets, variant>>

\* INIT.call_once(|| ..): the first caller runs the closure; a caller that finds
\* the closure running waits for it; a caller that finds it done returns at once.
SetCallOnce(t) ==
    /\ pc[t] = "set_once"
    /\ \/ /\ INIT = "incomplete"
          /\ INIT' = "running"
          /\ Goto(t, "set_closure")
          /\ UNCHANGED okSets
       \/ /\ INIT = "complete"
          /\ SetReturnsOk(t)
          /\ UNCHANGED INIT
    /\ UNCHANGED <<DIMS, dimsLock, kindLock, call, inst, store, variant>>

\* let mut dims = DIMS.lock().unwrap();   (wr: the elements of DIMS written so far)
SetClosureLock(t) ==
    /\ pc[t] = "set_closure"
    /\ dimsLock = 0
    /\ dimsLock' = t
    /\ call' = [call EXCEPT ![t] = [op |-> "set", args |-> call[t].args, wr |-> 0]]
    /\ Goto(t, "set_write")
    /\ UNCHANGED <<INIT, DIMS, kindLock, inst, store, okSets, variant>>

\* Mutant: the closure panics while it holds the DIMS guard: the mutex and
\* the Once are poisoned and the call ends in a panic.
SetClosureWritePanics(t) ==
    /\ pc[t] = "set_write"
    /\ INIT' = "poisoned"
    /\ dimsLock' = -1
    /\ Finish(t, [tag |-> "Panic"])
    /\ UNCHANGED <<DIMS, kindLock, call, inst, store, okSets, variant>>

\* *dims = [ x0.into(), x1.into(), .. ]; the array is stored one element after
\* the other, and the guard is dropped as the closure ends
SetClosureWrite(t) ==
    /\ pc[t] = "set_write"
    /\ LET i == call[t].wr + 1 IN
       /\ DIMS' = [DIMS EXCEPT ![i] = ParamInto(call[t].args[i])]
       /\ call' = [call EXCEPT ![t].wr = i]
       /\ IF i = TypesLen
          THEN dimsLock' = 0 /\ Goto(t, "set_done")
          ELSE UNCHANGED <<dimsLock, pc, ret>>
    /\ UNCHANGED <<INIT, kindLock, inst, store, okSets, variant>>

\* call_once marks the Once complete; Ok(())
SetDone(t) ==
    /\ pc[t] = "set_done"
    /\ INIT' = "complete"
    /\ SetReturnsOk(t)
    /\ UNCHANGED <<DIMS, dimsLock, kindLock, call, inst, store, variant>>

\* ------------------------------------------------- global variant: new
\* Mutant: KindMismatch with expected and found exchanged.
CheckKindGlobalSwapped(kind, tensor) ==
    IF kind # tensor.kind
    THEN KindMismatch(GlobalName, tensor.kind, kind)
    ELSE Pass

\* if *kind != tensor.kind() { return Err(KindMismatch { .. }) }
CheckKindGlobal(kind, tensor) ==
    IF kind # tensor.kind
    THEN KindMismatch(GlobalName, kind, tensor.kind)
    ELSE Pass

\* Mutant: the error names another wrapper type of the program.
CheckSizeGlobalOtherName(dims, tensor) ==
    IF tensor.shape # dims
    THEN ShapeMismatch(ExplicitName, dims, tensor.shape)
    ELSE Pass

\* Mutant: only the number of dimensions and their product are compared.
CheckSizeGlobalLoose(dims, tensor) ==
    LET Prod(q) == IF Len(q) = 2 THEN q[1] * q[2] ELSE IF Len(q) = 1 THEN q[1] ELSE 0 IN
    IF Len(tensor.shape) # Len(dims) \/ Prod(tensor.shape) # Prod(dims)
    THEN ShapeMismatch(GlobalName, dims, tensor.shape)
    ELSE Pass

\* if size != dims.to_vec() { return Err(ShapeMismatch { .. }) }
CheckSizeGlobal(dims, tensor) ==
    IF tensor.shape # dims
    THEN ShapeMismatch(GlobalName, dims, tensor.shape)
    ELSE Pass

CallNew(t, tensor) ==
    /\ pc[t] = "idle"
    /\ variant = "G"
    /\ CanBuild
    /\ call' = [call EXCEPT ![t] = [op |-> "new", tensor |-> tensor, okBefore |-> okSets]]
    /\ Goto(t, "new_check")
    /\ UNCHANGED <<INIT, DIMS, dimsLock, kindLock, inst, store, okSets, variant>>

\* Mutant: new does not look at INIT.
NewCheckSkipsInit(t) ==
    /\ pc[t] = "new_check"
    /\ Goto(t, "new_kind")
    /\ UNCHANGED <<INIT, DIMS, dimsLock, kindLock, call, inst, store, okSets, variant>>

\* if !INIT.is_completed() { return Err(Uninitialized { .. }) }
NewCheck(t) ==
    /\ pc[t] = "new_check"
    /\ IF IsCompleted
       THEN Goto(t, "new_kind")
       ELSE Finish(t, Uninitialized(GlobalName))
    /\ UNCHANGED <<INIT, DIMS, dimsLock, kindLock, call, inst, store, okSets, variant>>

\* Mutant: on a kind mismatch the KIND guard is never dropped.
NewKindLeaksGuard(t) ==
    /\ pc[t] = "new_kind"
    /\ kindLock = 0
    /\ kindLock' = t
    /\ LET r == CheckKindGlobal(GlobalKind, call[t].tensor) IN
       IF r = Pass THEN Goto(t, "new_dims") ELSE Finish(t, r)
    /\ UNCHANGED <<INIT, DIMS, dimsLock, call, inst, store, okSets, variant>>

\* let kind = KIND.lock().unwrap(); the guard lives to the end of new
NewKind(t) ==
    /\ pc[t] = "new_kind"
    /\ kindLock = 0
    /\ LET r == CheckKindGlobal(GlobalKind, call[t].tensor) IN
       IF r = Pass
       THEN kindLock' = t /\ Goto(t, "new_dims")
       ELSE kindLock' = 0 /\ Finish(t, r)
    /\ UNCHANGED <<INIT, DIMS, dimsLock, call, inst, store, okSets, variant>>

\* Mutant: an array of another shape is accepted and its shape becomes the
\* stored one.
NewDimsAdoptsShape(t) ==
    /\ pc[t] = "new_dims"
    /\ dimsLock = 0
    /\ kindLock' = 0
    /\ DIMS' = call[t].tensor.shape
    /\ LET h == Min(FreeHandles) IN
       /\ Wrap("G", call[t].tensor, h)
       /\ Finish(t, [tag |-> "Ok", h |-> h])
    /\ UNCHANGED <<INIT, dimsLock, call, okSets, variant>>

\* let dims = DIMS.lock().unwrap(); both guards are dropped on return
NewDims(t) ==
    /\ pc[t] = "new_dims"
    /\ dimsLock = 0
    /\ kindLock' = 0
    /\ LET r == CheckSizeGlobal(DIMS, call[t].tensor) IN
       IF r = Pass
       THEN LET h == Min(FreeHandles) IN
            /\ Wrap("G", call[t].tensor, h)
            /\ Finish(t, [tag |-> "Ok", h |-> h])
       ELSE Finish(t, r) /\ UNCHANGED <<inst, store>>
    /\ UNCHANGED <<INIT, DIMS, dimsLock, call, okSets, variant>>

\* apply(&self, f): Self::new(f(&self.tensor))
CallApply(t, h, out) ==
    /\ pc[t] = "idle"
    /\ variant = "G"
    /\ h \in LiveOf("G")
    /\ CanBuild
    /\ call' = [call EXCEPT ![t] =
           [op |-> "apply", h |-> h, tensor |-> out, okBefore |-> okSets]]
    /\ Goto(t, "new_check")
    /\ UNCHANGED <<INIT, DIMS, dimsLock, kindLock, inst, store, okSets, variant>>

\* clone(&self): Self { tensor: self.tensor.shallow_clone() }
Clone(t, h) ==
    /\ pc[t] = "idle"
    /\ variant = "G"
    /\ h \in LiveOf("G")
    /\ CanBuild
    /\ LET c == Min(FreeHandles) IN
       /\ inst' = [inst EXCEPT ![c] = inst[h]]
       /\ call' = [call EXCEPT ![t] = [op |-> "clone", h |-> h]]
       /\ Finish(t, [tag |-> "Handle", h |-> c])
    /\ UNCHANGED <<INIT, DIMS, dimsLock, kindLock, store, okSets, variant>>

\* tensor(&self): &self.tensor (both variants)
TensorRef(t, h) ==
    /\ pc[t] = "idle"
    /\ h \in Handles /\ inst[h] # NoInst
    /\ call' = [call EXCEPT ![t] = [op |-> "tensor", h |-> h]]
    /\ Finish(t, [tag |-> "Tensor", tensor |-> TensorOf(h)])
    /\ UNCHANGED <<INIT, DIMS, dimsLock, kindLock, inst, store, okSets, variant>>

\* Mutant: into_inner hands out a fresh array of the same shape and kind.
IntoInnerFresh(t, h) ==
    /\ pc[t] = "idle"
    /\ h \in Handles /\ inst[h] # NoInst
    /\ h \notin Borrowed
    /\ inst' = [inst EXCEPT ![h] = NoInst]
    /\ store' = IF \E g \in Handles \ {h} : inst[g] # NoInst /\ inst[g].st = inst[h].st
                THEN store
                ELSE [store EXCEPT ![inst[h].st] = NoTensor]
    /\ call' = [call EXCEPT ![t] = [op |-> "into_inner", h |-> h]]
    /\ Finish(t, [tag |-> "Tensor", tensor |-> [TensorOf(h) EXCEPT !.data = 0]])
    /\ UNCHANGED <<INIT, DIMS, dimsLock, kindLock, okSets, variant>>

\* Mutant: into_inner takes &self and hands out a shallow clone.
IntoInnerKeeps(t, h) ==
    /\ pc[t] = "idle"
    /\ h \in Handles /\ inst[h] # NoInst
    /\ h \notin Borrowed
    /\ call' = [call EXCEPT ![t] = [op |-> "into_inner", h |-> h]]
    /\ Finish(t, [tag |-> "Tensor", tensor |-> TensorOf(h)])
    /\ UNCHANGED <<INIT, DIMS, dimsLock, kindLock, inst, store, okSets, variant>>

\* into_inner(self): self.tensor; the instance is moved out of (both variants)
IntoInner(t, h) ==
    /\ pc[t] = "idle"
    /\ h \in Handles /\ inst[h] # NoInst
    /\ h \notin Borrowed
    /\ inst' = [inst EXCEPT ![h] = NoInst]
    /\ store' = IF \E g \in Handles \ {h} : inst[g] # NoInst /\ inst[g].st = inst[h].st
                THEN store
                ELSE [store EXCEPT ![inst[h].st] = NoTensor]
    /\ call' = [call EXCEPT ![t] = [op |-> "into_inner", h |-> h]]
    /\ Finish(t, [tag |-> "Tensor", tensor |-> TensorOf(h)])
    /\ UNCHANGED <<INIT, DIMS, dimsLock, kindLock, okSets, variant>>

\* The shapes an in-place operation leaves: the shape as it is (fill_) or one
\* of a lower rank (resize_).
InPlaceShapes(h) ==
    IF inst[h] = NoInst THEN {} ELSE {TensorOf(h).shape} \cup ShapesOfRank(TypesLen - 1)

\* tensor() / Deref / tensor_mut() hand out the wrapped tch::Tensor.  An in-place
\* operation reached through it (fill_, resize_, on the reference or on a
\* shallow_clone of it) acts on the storage every shallow clone shares: it can
\* change the data and the shape, not the kind.
MutateInPlace(t, h, shape, data) ==
    /\ pc[t] = "idle"
    /\ h \in Handles /\ inst[h] # NoInst
    /\ shape \in InPlaceShapes(h)
    /\ store' = [store EXCEPT ![inst[h].st] =
                    [shape |-> shape, kind |-> TensorOf(h).kind, data |-> data]]
    /\ call' = [call EXCEPT ![t] =
                    [op |-> "mutate", h |-> h, shape |-> shape, data |-> data]]
    /\ Finish(t, [tag |-> "Unit"])
    /\ UNCHANGED <<INIT, DIMS, dimsLock, kindLock, inst, okSets, variant>>

\* pub tensor / tensor_mut(&mut self) of the explicit-params variant: the caller
\* replaces the wrapped array, w.tensor = x or *w.tensor_mut() = x.  The
\* instance then wraps x in a storage of its own; a clone keeps the old one.
TensorMutAssign(t, h, x) ==
    /\ pc[t] = "idle"
    /\ variant = "E"
    /\ h \in LiveOf("E")
    /\ LET aliased == \E g \in Handles \ {h} : inst[g] # NoInst /\ inst[g].st = inst[h].st
           s == IF aliased THEN Min(FreeStores) ELSE inst[h].st IN
       /\ inst' = [inst EXCEPT ![h] = [ty |-> "E", st |-> s]]
       /\ store' = [store EXCEPT ![s] = x]
    /\ call' = [call EXCEPT ![t] = [op |-> "assign", h |-> h, tensor |-> x]]
    /\ Finish(t, [tag |-> "Unit"])
    /\ UNCHANGED <<INIT, DIMS, dimsLock, kindLock, okSets, variant>>

\* The caller takes the returned value and is ready for its next call.
Return(t) ==
    /\ pc[t] = "ret"
    /\ pc' = [pc EXCEPT ![t] = "idle"]
    /\ call' = [call EXCEPT ![t] = NoCall]
    /\ ret' = [ret EXCEPT ![t] = NoRet]
    /\ UNCHANGED <<INIT, DIMS, dimsLock, kindLock, inst, store, okSets, variant>>

\* ------------------------------------------------ explicit-params variant
\* let expected_size: Vec<i64> = vec![$(params.$field.into()),*];
ExpectedSize(params) == [i \in 1..Len(Fields) |-> ParamInto(params[Fields[i]])]

\* Mutant: the expected shape is remembered: while an instance lives, its shape
\* is the expected one, whatever the params of the call.
ValidateExplicitRemembers(tensor, params) ==
    LET exp == IF LiveOf("E") = {}
               THEN ExpectedSize(params)
               ELSE TensorOf(Min(LiveOf("E"))).shape IN
    IF tensor.shape # exp
    THEN ShapeMismatch(ExplicitName, exp, tensor.shape)
    ELSE IF tensor.kind # ExplicitKind
    THEN KindMismatch(ExplicitName, ExplicitKind, tensor.kind)
    ELSE Pass

\* Mutant: ShapeMismatch with expected and found exchanged.
ValidateExplicitSwapped(tensor, params) ==
    IF tensor.shape # ExpectedSize(params)
    THEN ShapeMismatch(ExplicitName, tensor.shape, ExpectedSize(params))
    ELSE IF tensor.kind # ExplicitKind
    THEN KindMismatch(ExplicitName, ExplicitKind, tensor.kind)
    ELSE Pass

\* new(tensor, params): the size is compared first, then the kind.
ValidateExplicit(tensor, params) ==
    IF tensor.shape # ExpectedSize(params)
    THEN ShapeMismatch(ExplicitName, ExpectedSize(params), tensor.shape)
    ELSE IF tensor.kind # ExplicitKind
    THEN KindMismatch(ExplicitName, ExplicitKind, tensor.kind)
    ELSE Pass

ENew(t, tensor, params) ==
    /\ pc[t] = "idle"
    /\ variant = "E"
    /\ CanBuild
    /\ call' = [call EXCEPT ![t] = [op |-> "new", tensor |-> tensor, params |-> params]]
    /\ LET r == ValidateExplicit(tensor, params) IN
       IF r = Pass
       THEN LET h == Min(FreeHandles) IN
            /\ Wrap("E", tensor, h)
            /\ Finish(t, [tag |-> "Ok", h |-> h])
       ELSE Finish(t, r) /\ UNCHANGED <<inst, store>>
    /\ UNCHANGED <<INIT, DIMS, dimsLock, kindLock, okSets, variant>>

\* Mutant: the transform's result is stored in the receiver's storage and the
\* result is a second handle on it.
EApplyFnInPlace(t, h, out, params) ==
    /\ pc[t] = "idle"
    /\ variant = "E"
    /\ h \in LiveOf("E")
    /\ CanBuild
    /\ call' = [call EXCEPT ![t] =
           [op |-> "apply", h |-> h, tensor |-> out, params |-> params]]
    /\ LET r == ValidateExplicit(out, params) IN
       IF r = Pass
       THEN LET n == Min(FreeHandles) IN
            /\ inst' = [inst EXCEPT ![n] = inst[h]]
            /\ store' = [store EXCEPT ![inst[h].st] = out]
            /\ Finish(t, [tag |-> "Ok", h |-> n])
       ELSE Finish(t, r) /\ UNCHANGED <<inst, store>>
    /\ UNCHANGED <<INIT, DIMS, dimsLock, kindLock, okSets, variant>>

\* Mutant: the transformed array is validated, the receiver's array is wrapped.
EApplyFnWrapsReceiver(t, h, out, params) ==
    /\ pc[t] = "idle"
    /\ variant = "E"
    /\ h \in LiveOf("E")
    /\ CanBuild
    /\ call' = [call EXCEPT ![t] =
           [op |-> "apply", h |-> h, tensor |-> out, params |-> params]]
    /\ LET r == ValidateExplicit(out, params) IN
       IF r = Pass
       THEN LET n == Min(FreeHandles) IN
            /\ Wrap("E", TensorOf(h), n)
            /\ Finish(t, [tag |-> "Ok", h |-> n])
       ELSE Finish(t, r) /\ UNCHANGED <<inst, store>>
    /\ UNCHANGED <<INIT, DIMS, dimsLock, kindLock, okSets, variant>>

\* apply_fn(&self, tfn, params): Self::new(tfn(&self.tensor), params)
EApplyFn(t, h, out, params) ==
    /\ pc[t] = "idle"
    /\ variant = "E"
    /\ h \in LiveOf("E")
    /\ CanBuild
    /\ call' = [call EXCEPT ![t] =
           [op |-> "apply", h |-> h, tensor |-> out, params |-> params]]
    /\ LET r == ValidateExplicit(out, params) IN
       IF r = Pass
       THEN LET n == Min(FreeHandles) IN
            /\ Wrap("E", out, n)
            /\ Finish(t, [tag |-> "Ok", h |-> n])
       ELSE Finish(t, r) /\ UNCHANGED <<inst, store>>
    /\ UNCHANGED <<INIT, DIMS, dimsLock, kindLock, okSets, variant>>

\* Mutant: clone copies the array into a storage of its own (a deep clone).
ECloneDeep(t, h, params) ==
    /\ pc[t] = "idle"
    /\ variant = "E"
    /\ h \in LiveOf("E")
    /\ CanBuild
    /\ call' = [call EXCEPT ![t] = [op |-> "clone", h |-> h, params |-> params]]
    /\ LET r == ValidateExplicit(TensorOf(h), params) IN
       IF r = Pass
       THEN LET c == Min(FreeHandles) IN
            /\ Wrap("E", TensorOf(h), c)
            /\ Finish(t, [tag |-> "Ok", h |-> c])
       ELSE Finish(t, r) /\ UNCHANGED <<inst, store>>
    /\ UNCHANGED <<INIT, DIMS, dimsLock, kindLock, okSets, variant>>

\* clone(&self, params): Self::new(self.tensor.shallow_clone(), params)
EClone(t, h, params) ==
    /\ pc[t] = "idle"
    /\ variant = "E"
    /\ h \in LiveOf("E")
    /\ CanBuild
    /\ call' = [call EXCEPT ![t] = [op |-> "clone", h |-> h, params |-> params]]
    /\ LET r == ValidateExplicit(TensorOf(h), params) IN
       IF r = Pass
       THEN LET c == Min(FreeHandles) IN
            /\ inst' = [inst EXCEPT ![c] = inst[h]]
            /\ Finish(t, [tag |-> "Ok", h |-> c])
       ELSE Finish(t, r) /\ UNCHANGED inst
    /\ UNCHANGED <<INIT, DIMS, dimsLock, kindLock, store, okSets, variant>>

\* ------------------------------- a type with fields declared twice
\* tensor_type!(MyTensor2, [my_param1, my_param2, my_param1, my_param2], Params, Kind::Int64)
RepeatName == "MyTensor2"
Fields2 == <<"my_param1", "my_param2", "my_param1", "my_param2">>
RepeatKind == "Int64"
\* Arrays handed to MyTensor2: of the rank of its field list, or of the number
\* of distinct fields.
Tensors2 == [shape : ShapesOfRank(Len(Fields2)) \cup ShapesOfRank(Len(Fields)),
             kind : {RepeatKind, "Float"}, data : {0}]

\* Mutant: every distinct field is read once.
ExpectedSizeDistinct(fields, params) ==
    [i \in 1..Cardinality({fields[j] : j \in 1..Len(fields)}) |-> ParamInto(params[fields[i]])]

\* let expected_size: Vec<i64> = vec![$(params.$field.into()),*];
ExpectedSizeOf(fields, params) ==
    [i \in 1..Len(fields) |-> ParamInto(params[fields[i]])]

ValidateRepeat(tensor, params) ==
    IF tensor.shape # ExpectedSizeOf(Fields2, params)
    THEN ShapeMismatch(RepeatName, ExpectedSizeOf(Fields2, params), tensor.shape)
    ELSE IF tensor.kind # RepeatKind
    THEN KindMismatch(RepeatName, RepeatKind, tensor.kind)
    ELSE Pass

\* MyTensor2::new(tensor, &params)
ENew2(t, tensor, params) ==
    /\ pc[t] = "idle"
    /\ variant = "R"
    /\ CanBuild
    /\ call' = [call EXCEPT ![t] = [op |-> "new", tensor |-> tensor, params |-> params]]
    /\ LET r == ValidateRepeat(tensor, params) IN
       IF r = Pass
       THEN LET h == Min(FreeHandles) IN
            /\ Wrap("R", tensor, h)
            /\ Finish(t, [tag |-> "Ok", h |-> h])
       ELSE Finish(t, r) /\ UNCHANGED <<inst, store>>
    /\ UNCHANGED <<INIT, DIMS, dimsLock, kindLock, okSets, variant>>

\* w.apply_fn(tfn, &params) on a MyTensor2
EApplyFn2(t, h, out, params) ==
    /\ pc[t] = "idle"
    /\ variant = "R"
    /\ h \in LiveOf("R")
    /\ CanBuild
    /\ call' = [call EXCEPT ![t] =
           [op |-> "apply", h |-> h, tensor |-> out, params |-> params]]
    /\ LET r == ValidateRepeat(out, params) IN
       IF r = Pass
       THEN LET n == Min(FreeHandles) IN
            /\ Wrap("R", out, n)
            /\ Finish(t, [tag |-> "Ok", h |-> n])
       ELSE Finish(t, r) /\ UNCHANGED <<inst, store>>
    /\ UNCHANGED <<INIT, DIMS, dimsLock, kindLock, okSets, variant>>

\* w.clone(&params) on a MyTensor2
EClone2(t, h, params) ==
    /\ pc[t] = "idle"
    /\ variant = "R"
    /\ h \in LiveOf("R")
    /\ CanBuild
    /\ call' = [call EXCEPT ![t] = [op |-> "clone", h |-> h, params |-> params]]
    /\ LET r == ValidateRepeat(TensorOf(h), params) IN
       IF r = Pass
       THEN LET c == Min(FreeHandles) IN
            /\ inst' = [inst EXCEPT ![c] = inst[h]]
            /\ Finish(t, [tag |-> "Ok", h |-> c])
       ELSE Finish(t, r) /\ UNCHANGED inst
    /\ UNCHANGED <<INIT, DIMS, dimsLock, kindLock, store, okSets, variant>>

\* ------------------------------------------------------ specifications
InitWith(v) ==
    /\ variant = v
    /\ INIT = "incomplete"
    /\ DIMS = [i \in 1..TypesLen |-> 0]
    /\ dimsLock = 0
    /\ kindLock = 0
    /\ pc = [t \in Threads |-> "idle"]
    /\ call = [t \in Threads |-> NoCall]
    /\ ret = [t \in Threads |-> NoRet]
    /\ inst = [h \in Handles |-> NoInst]
    /\ store = [h \in Handles |-> NoTensor]
    /\ okSets = <<>>

GlobalStep(t) ==
    \/ SetCheck(t)
    \/ SetCallOnce(t)
    \/ SetClosureLock(t)
    \/ SetClosureWrite(t)
    \/ SetDone(t)
    \/ NewCheck(t)
    \/ NewKind(t)
    \/ NewDims(t)
    \/ GetDimsLock(t)
    \/ GetKindLock(t)

GlobalCall(t, tensors, setArgs) ==
    \/ IsInitialized(t)
    \/ CallGetDims(t)
    \/ CallGetKind(t)
    \/ \E a \in setArgs : CallSet(t, a)
    \/ \E x \in tensors : CallNew(t, x)
    \/ \E h \in Handles, x \in tensors : CallApply(t, h, x)
    \/ \E h \in Handles : Clone(t, h)

ExplicitCall(t) ==
    \/ \E x \in AllTensors, p \in ParamsRecords : ENew(t, x, p)
    \/ \E h \in Handles, x \in AllTensors, p \in ParamsRecords : EApplyFn(t, h, x, p)
    \/ \E h \in Handles, p \in ParamsRecords : EClone(t, h, p)

Common(t) ==
    \/ \E h \in Handles : TensorRef(t, h)
    \/ \E h \in Handles : IntoInner(t, h)
    \/ Return(t)

Mutate(t) ==
    \/ \E h \in Handles, x \in AllTensors : TensorMutAssign(t, h, x)
    \/ \E h \in Handles, q \in Shapes, d \in Data : MutateInPlace(t, h, q, d)

\* A program with one thread that uses one of the two variants.
Init == \E v \in {"G", "E"} : InitWith(v)

Next ==
    \/ GlobalStep(1)
    \/ GlobalCall(1, AllTensors, SetArgs)
    \/ ExplicitCall(1)
    \/ Common(1)
    \/ Mutate(1)

Spec == Init /\ [][Next]_vars

\* A program with one thread that uses the type with repeated fields.
InitRepeat == InitWith("R")

NextRepeat ==
    \/ \E x \in Tensors2, p \in ParamsRecords : ENew2(1, x, p)
    \/ \E h \in Handles, x \in Tensors2, p \in ParamsRecords : EApplyFn2(1, h, x, p)
    \/ \E h \in Handles, p \in ParamsRecords : EClone2(1, h, p)
    \/ Common(1)

SpecRepeat == InitRepeat /\ [][NextRepeat]_vars

\* Threads calling the global variant concurrently.
InitConc == InitWith("G")

NextConc ==
    \E t \in Threads :
        \/ GlobalStep(t)
        \/ GlobalCall(t, ConcTensors, ConcSetArgs)
        \/ Common(t)

SpecConc == InitConc /\ [][NextConc]_vars

\* The same threads under fair scheduling: a thread inside a call that can
\* take its next step infinitely often takes it (a runnable thread runs; a
\* thread waiting for a mutex or for the Once gets it when it is free again
\* and again).  Starting a call and taking its result are up to the caller.
SpecConcFair == SpecConc /\ \A t \in Threads : SF_vars(GlobalStep(t))

\* ------------------- an explicit-params type declared like the global one
\* pub struct Params { size0: i64, size1: i64 }
\* tensor_type!(MyTensor, [size0, size1], Params, Kind::Float)
DocName == "MyTensor"
DocFields == <<"size0", "size1">>
DocKind == "Float"
DocParams == [{DocFields[i] : i \in 1..Len(DocFields)} -> Dim]

\* MyTensor::new(tensor, &params): the fields are i64, into() leaves them as they are
ValidateDoc(tensor, params) ==
    LET expected_size == [i \in 1..Len(DocFields) |-> params[DocFields[i]]] IN
    IF tensor.shape # expected_size
    THEN ShapeMismatch(DocName, expected_size, tensor.shape)
    ELSE IF tensor.kind # DocKind
    THEN KindMismatch(DocName, DocKind, tensor.kind)
    ELSE Pass

\* ------------------------------------ a program with two wrapper types
\* tensor_type!(EncoderInput, [BatchSize, SequenceLength, ModelDimension], Kind::Float)
\* tensor_type!(DecoderInput, [BatchSize, SequenceLength, ModelDimension], Kind::Float)
\* Each declaration expands to a module of its own with its own INIT, DIMS and
\* KIND: in this program INIT and DIMS hold one value per type name.
TypeNames == {"EncoderInput", "DecoderInput"}
TypesLenOf(ty) == 3
KindOf(ty) == "Float"
SetArgsOf(ty) == [1..TypesLenOf(ty) -> ParamValues]
TensorsOf(ty) == [shape : ShapesOfRank(TypesLenOf(ty)), kind : Kinds, data : {0}]

\* T::is_initialized()
TIsInitialized(t, ty) ==
    /\ pc[t] = "idle"
    /\ variant = "T"
    /\ call' = [call EXCEPT ![t] = [op |-> "is_initialized", ty |-> ty]]
    /\ Finish(t, [tag |-> "Bool", value |-> INIT[ty] = "complete"])
    /\ UNCHANGED <<INIT, DIMS, dimsLock, kindLock, inst, store, okSets, variant>>

\* T::get_dims()
TGetDims(t, ty) ==
    /\ pc[t] = "idle"
    /\ variant = "T"
    /\ call' = [call EXCEPT ![t] = [op |-> "get_dims", ty |-> ty]]
    /\ Finish(t, IF INIT[ty] = "complete"
                 THEN [tag |-> "Some", value |-> DIMS[ty]]
                 ELSE [tag |-> "None"])
    /\ UNCHANGED <<INIT, DIMS, dimsLock, kindLock, inst, store, okSets, variant>>

\* Mutant: the statics are shared by the wrapper types of the program.
TSetShared(t, ty, args) ==
    /\ pc[t] = "idle"
    /\ variant = "T"
    /\ call' = [call EXCEPT ![t] = [op |-> "set", ty |-> ty, args |-> args]]
    /\ IF INIT[ty] = "complete"
       THEN /\ Finish(t, AlreadyInitialized(ty))
            /\ UNCHANGED <<INIT, DIMS, okSets>>
       ELSE /\ INIT' = [u \in TypeNames |-> "complete"]
            /\ DIMS' = [u \in TypeNames |-> [i \in 1..TypesLenOf(ty) |-> ParamInto(args[i])]]
            /\ okSets' = Append(okSets, <<ty, args>>)
            /\ Finish(t, [tag |-> "Ok"])
    /\ UNCHANGED <<dimsLock, kindLock, inst, store, variant>>

\* T::set(x0, x1, x2), called by the one thread of the program
TSet(t, ty, args) ==
    /\ pc[t] = "idle"
    /\ variant = "T"
    /\ call' = [call EXCEPT ![t] = [op |-> "set", ty |-> ty, args |-> args]]
    /\ IF INIT[ty] = "complete"
       THEN /\ Finish(t, AlreadyInitialized(ty))
            /\ UNCHANGED <<INIT, DIMS, okSets>>
       ELSE /\ INIT' = [INIT EXCEPT ![ty] = "complete"]
            /\ DIMS' = [DIMS EXCEPT ![ty] = [i \in 1..TypesLenOf(ty) |-> ParamInto(args[i])]]
            /\ okSets' = Append(okSets, <<ty, args>>)
            /\ Finish(t, [tag |-> "Ok"])
    /\ UNCHANGED <<dimsLock, kindLock, inst, store, variant>>

\* The checks of T::new: INIT, then the kind, then the size.
TValidate(ty, tensor) ==
    IF INIT[ty] # "complete"
    THEN Uninitialized(ty)
    ELSE IF KindOf(ty) # tensor.kind
    THEN KindMismatch(ty, KindOf(ty), tensor.kind)
    ELSE IF tensor.shape # DIMS[ty]
    THEN ShapeMismatch(ty, DIMS[ty], tensor.shape)
    ELSE Pass

\* T::new(tensor)
TNew(t, ty, tensor) ==
    /\ pc[t] = "idle"
    /\ variant = "T"
    /\ CanBuild
    /\ call' = [call EXCEPT ![t] = [op |-> "new", ty |-> ty, tensor |-> tensor]]
    /\ LET r == TValidate(ty, tensor) IN
       IF r = Pass
       THEN LET h == Min(FreeHandles) IN
            /\ Wrap(ty, tensor, h)
            /\ Finish(t, [tag |-> "Ok", h |-> h])
       ELSE Finish(t, r) /\ UNCHANGED <<inst, store>>
    /\ UNCHANGED <<INIT, DIMS, dimsLock, kindLock, okSets, variant>>

InitTypes ==
    /\ variant = "T"
    /\ INIT = [ty \in TypeNames |-> "incomplete"]
    /\ DIMS = [ty \in TypeNames |-> [i \in 1..TypesLenOf(ty) |-> 0]]
    /\ dimsLock = 0
    /\ kindLock = 0
    /\ pc = [t \in Threads |-> "idle"]
    /\ call = [t \in Threads |-> NoCall]
    /\ ret = [t \in Threads |-> NoRet]
    /\ inst = [h \in Handles |-> NoInst]
    /\ store = [h \in Handles |-> NoTensor]
    /\ okSets = <<>>

NextTypes ==
    \/ \E ty \in TypeNames : TIsInitialized(1, ty)
    \/ \E ty \in TypeNames : TGetDims(1, ty)
    \/ \E ty \in TypeNames : \E a \in SetArgsOf(ty) : TSet(1, ty, a)
    \/ \E ty \in TypeNames : \E x \in TensorsOf(ty) : TNew(1, ty, x)
    \/ Common(1)

SpecTypes == InitTypes /\ [][NextTypes]_vars

\* ------------------------------------------------ parameter types alone
\* parameter_type!(TestParamType, i64) and the i64 values handed to it.
I64Values == (0 - MaxParam)..MaxParam

\* TestParamType::from(n)
ParamValueFrom(t, n) ==
    /\ pc[t] = "idle"
    /\ variant = "P"
    /\ call' = [call EXCEPT ![t] = [op |-> "from", n |-> n]]
    /\ Finish(t, [tag |-> "Param", value |-> ParamFrom(n)])
    /\ UNCHANGED <<INIT, DIMS, dimsLock, kindLock, inst, store, okSets, variant>>

\* i64::from(value) on the parameter value just made
ParamValueInto(t) ==
    /\ pc[t] = "ret"
    /\ variant = "P"
    /\ ret[t].tag = "Param"
    /\ call' = [call EXCEPT ![t] = [op |-> "into", n |-> call[t].n]]
    /\ ret' = [ret EXCEPT ![t] = [tag |-> "I64", value |-> ParamInto(ret[t].value)]]
    /\ UNCHANGED <<INIT, DIMS, dimsLock, kindLock, pc, inst, store, okSets, variant>>

\* *value on the parameter value just made
ParamValueDeref(t) ==
    /\ pc[t] = "ret"
    /\ variant = "P"
    /\ ret[t].tag = "Param"
    /\ call' = [call EXCEPT ![t] = [op |-> "deref", n |-> call[t].n]]
    /\ ret' = [ret EXCEPT ![t] = [tag |-> "I64", value |-> ParamDeref(ret[t].value)]]
    /\ UNCHANGED <<INIT, DIMS, dimsLock, kindLock, pc, inst, store, okSets, variant>>

\* A program that converts i64 values to a parameter type and back.
InitParam == InitWith("P")

NextParam ==
    \/ \E n \in I64Values : ParamValueFrom(1, n)
    \/ ParamValueInto(1)
    \/ ParamValueDeref(1)
    \/ Return(1)

SpecParam == InitParam /\ [][NextParam]_vars

\* -------------------------------------------------------------- claims
Returned(t, op) == pc[t] = "ret" /\ call[t].op = op
\* The i64 values of a tuple of parameter values, in order.
ArgValues(args) == [i \in 1..Len(args) |-> args[i].inner]
\* Equal length and equal at every position.
SameShape(a, b) == Len(a) = Len(b) /\ \A i \in 1..Len(a) : a[i] = b[i]
\* The shape the explicit-params type declares: [my_param1, my_param2].
DeclaredShape(params) == <<params.my_param1.inner, params.my_param2.inner>>
DeclaredKind == IF variant = "G" THEN "Float" ELSE "Double"
DeclaredName == IF variant = "G" THEN "TransformerOutput" ELSE "MyTensor"
\* The shape a new / apply call of the variant in use is validated against.
ExpectedOf(c) == IF variant = "G" THEN DIMS ELSE DeclaredShape(c.params)
\* The registry is Set (the explicit-params variant has no registry).
Registered == variant = "G" => INIT = "complete"

\* C1: of the set calls made on one type, at most one returns Ok,
\* also when they race on an Unset registry.
C1_SingleWinner == Len(okSets) <= 1

\* C2: called one after the other, the first set returns Ok and stores its
\* values; a later set returns AlreadyInitialized with the type's name and leaves
\* the stored shape alone; get_dims then returns the first call's values.
C2_SetTwice ==
    \A t \in Threads :
        /\ Returned(t, "set") =>
            \/ /\ ret[t] = [tag |-> "Ok"]
               /\ okSets = << <<t, call[t].args>> >>
               /\ DIMS = ArgValues(call[t].args)
            \/ /\ ret[t] = [tag |-> "AlreadyInitialized", type_name |-> "TransformerOutput"]
               /\ Len(okSets) = 1
               /\ DIMS = ArgValues(okSets[1][2])
        /\ Returned(t, "get_dims") /\ okSets # <<>> =>
            ret[t] = [tag |-> "Some", value |-> ArgValues(okSets[1][2])]

C2_Witness ==
    /\ Returned(1, "set")
    /\ ret[1].tag = "AlreadyInitialized"
    /\ Len(okSets) = 1
    /\ ArgValues(call[1].args) # DIMS

\* C3: the registry is write-once: a true is_initialized and a Some(s) get_dims
\* report a completed registry holding s, and a completed registry stays
\* completed with the same shape under every step of every thread.
C3_WriteOnce ==
    /\ [](\A t \in Threads :
            /\ Returned(t, "is_initialized") /\ ret[t].value => INIT = "complete"
            /\ Returned(t, "get_dims") /\ ret[t].tag = "Some" =>
                INIT = "complete" /\ ret[t].value = DIMS)
    /\ [][INIT = "complete" => INIT' = "complete" /\ DIMS' = DIMS]_vars

C3_Witness ==
    \E t, u \in Threads :
        /\ Returned(t, "get_dims") /\ ret[t].tag = "Some"
        /\ Returned(u, "set") /\ ArgValues(call[u].args) # DIMS

\* C4: while the registry is Unset, new returns Uninitialized with the type's
\* name whatever the array, and no instance exists.
C4_NewBeforeSet ==
    variant = "G" /\ INIT # "complete" =>
        /\ \A h \in Handles : inst[h] = NoInst
        /\ \A t \in Threads : Returned(t, "new") =>
              ret[t] = [tag |-> "Uninitialized", type_name |-> "TransformerOutput"]

C4_Witness ==
    /\ variant = "G"
    /\ Returned(1, "new")
    /\ ret[1].tag = "Uninitialized"
    /\ call[1].tensor.kind # "Float"
    /\ Len(call[1].tensor.shape) # 2

\* C5: once a set(values) call has returned Ok, a new called after
\* it with an array of shape values and of the declared kind returns Ok.
C5_SetThenNew ==
    \A t \in Threads :
        /\ Returned(t, "new")
        /\ call[t].tensor.kind = "Float"
        /\ \E i \in 1..Len(call[t].okBefore) :
              ArgValues(call[t].okBefore[i][2]) = call[t].tensor.shape
        => ret[t].tag = "Ok"

\* C6: new returns Ok exactly when the array's shape equals the expected shape
\* in length and at every position and its kind is the declared kind; the
\* instance it returns wraps that array.
C6_NewOkIff ==
    \A t \in Threads : Returned(t, "new") =>
        /\ ret[t].tag = "Ok" <=>
              /\ Registered
              /\ SameShape(call[t].tensor.shape, ExpectedOf(call[t]))
              /\ call[t].tensor.kind = DeclaredKind
        /\ ret[t].tag = "Ok" =>
              /\ inst[ret[t].h] # NoInst
              /\ inst[ret[t].h].ty = variant
              /\ TensorOf(ret[t].h) = call[t].tensor

C6_Witness ==
    /\ variant = "G"
    /\ Returned(1, "new")
    /\ DIMS = <<1, 2>>
    /\ call[1].tensor.shape = <<2, 1>>
    /\ call[1].tensor.kind = "Float"
    /\ ret[1].tag = "ShapeMismatch"

C8_KindMismatchFields ==
    \A t \in Threads :
        /\ Returned(t, "new")
        /\ Registered
        /\ SameShape(call[t].tensor.shape, ExpectedOf(call[t]))
        /\ call[t].tensor.kind # DeclaredKind
        => ret[t] = [tag |-> "KindMismatch", type_name |-> DeclaredName,
                     expected |-> DeclaredKind, found |-> call[t].tensor.kind]

C8_Witness ==
    /\ variant = "G"
    /\ Returned(1, "new")
    /\ ret[1].tag = "KindMismatch"
    /\ ret[1].found = "Double"
    /\ call[1].tensor.shape = DIMS

BothDiffer(t) ==
    /\ Registered
    /\ ~SameShape(call[t].tensor.shape, ExpectedOf(call[t]))
    /\ call[t].tensor.kind # DeclaredKind

\* C9: in both variants the shape is validated before the kind: an array whose
\* shape and kind both differ gets ShapeMismatch, not KindMismatch.
C9_ShapeBeforeKind ==
    \A t \in Threads : Returned(t, "new") /\ BothDiffer(t) => ret[t].tag = "ShapeMismatch"

\* The result of a returned apply wraps the transform's array in an instance
\* and a storage of its own.
WrapsTransformed(t) ==
    /\ ret[t].tag = "Ok"
    /\ ret[t].h # call[t].h
    /\ inst[ret[t].h] # NoInst
    /\ inst[ret[t].h].ty = variant
    /\ inst[ret[t].h].st # inst[call[t].h].st
    /\ TensorOf(ret[t].h) = call[t].tensor

Preserving(t) ==
    /\ call[t].tensor.shape = TensorOf(call[t].h).shape
    /\ call[t].tensor.kind = TensorOf(call[t].h).kind

\* C10 (as claimed): apply / apply_fn with a transform that preserves shape and
\* kind returns Ok with a new instance wrapping the transform's array.
C10_ApplyPreserving ==
    \A t \in Threads : Returned(t, "apply") /\ Preserving(t) => WrapsTransformed(t)

\* C10 (amended): apply / apply_fn with a transform that preserves shape and
\* kind returns Ok with a new instance wrapping the transform's array, provided
\* the receiver's array passes the validation the call performs, which for
\* apply_fn is against the shape computed from the params of that call.
C10_ApplyPreservingValid ==
    \A t \in Threads :
        /\ Returned(t, "apply")
        /\ Preserving(t)
        /\ Registered
        /\ SameShape(TensorOf(call[t].h).shape, ExpectedOf(call[t]))
        /\ TensorOf(call[t].h).kind = DeclaredKind
        => WrapsTransformed(t)

C10_Witness ==
    /\ variant = "E"
    /\ Returned(1, "apply")
    /\ Preserving(1)
    /\ call[1].tensor.data # TensorOf(call[1].h).data
    /\ ret[1].tag = "Ok"
    /\ TensorOf(ret[1].h) = call[1].tensor

\* C11: apply / apply_fn with a transform whose result has a shape other than
\* the expected shape returns ShapeMismatch with the type's expected shape as
\* expected and the transformed array's shape as found, whatever the kind of
\* the result.
C11_ApplyShapeMismatch ==
    \A t \in Threads :
        /\ Returned(t, "apply")
        /\ ~SameShape(call[t].tensor.shape, ExpectedOf(call[t]))
        => ret[t] = [tag |-> "ShapeMismatch", type_name |-> DeclaredName,
                     expected |-> ExpectedOf(call[t]),
                     found |-> call[t].tensor.shape]

\* C12: every live instance wraps an array of the type's expected shape (the
\* registry's shape; in the explicit-params variant the shape some params
\* record gives) and of the declared kind, whatever calls and mutations were made.
C12_LiveShapeInvariant ==
    \A h \in Handles : inst[h] # NoInst =>
        /\ TensorOf(h).kind = DeclaredKind
        /\ IF variant = "G"
           THEN SameShape(TensorOf(h).shape, DIMS)
           ELSE \E p \in ParamsRecords : SameShape(TensorOf(h).shape, DeclaredShape(p))

Live(h) == inst[h] # NoInst
\* Handles g and h wrap the same storage.
SharesStorage(g, h) == Live(g) /\ Live(h) /\ inst[g].st = inst[h].st

\* C13: a clone that yields a handle yields a second live handle of the same
\* type on the storage of the original, which stays live; an in-place mutation
\* made through a handle is what every handle on that storage then reads.
C13_CloneAliases ==
    \A t \in Threads :
        /\ Returned(t, "clone") /\ ret[t].tag \in {"Handle", "Ok"} =>
              /\ ret[t].h # call[t].h
              /\ SharesStorage(ret[t].h, call[t].h)
              /\ inst[ret[t].h].ty = inst[call[t].h].ty
              /\ TensorOf(ret[t].h) = TensorOf(call[t].h)
        /\ Returned(t, "mutate") =>
              \A g \in Handles : SharesStorage(g, call[t].h) =>
                  /\ TensorOf(g).shape = call[t].shape
                  /\ TensorOf(g).data = call[t].data

C13_Witness ==
    /\ Returned(1, "mutate")
    /\ call[1].data = 1
    /\ \E g \in Handles \ {call[1].h} :
          /\ SharesStorage(g, call[1].h)
          /\ TensorOf(g).data = 1

\* The array passes the validation of new: registry Set, expected shape, declared kind.
PassesValidation(x, c) ==
    /\ Registered
    /\ SameShape(x.shape, ExpectedOf(c))
    /\ x.kind = DeclaredKind

\* C14: in both variants clone runs the validation of new on the array it
\* aliases: it yields a handle only if the array passes, and in the
\* explicit-params variant a params record giving another shape than the
\* array's gets ShapeMismatch.
C14_CloneRevalidates ==
    \A t \in Threads : Returned(t, "clone") =>
        /\ ret[t].tag \in {"Handle", "Ok"} <=> PassesValidation(TensorOf(call[t].h), call[t])
        /\ variant = "E" /\ ~SameShape(TensorOf(call[t].h).shape, DeclaredShape(call[t].params))
              => ret[t] = [tag |-> "ShapeMismatch", type_name |-> "MyTensor",
                           expected |-> DeclaredShape(call[t].params),
                           found |-> TensorOf(call[t].h).shape]

\* Thread t starts a call on a handle in this step.
StartsOn(t) == pc[t] = "idle" /\ pc'[t] # "idle" /\ "h" \in DOMAIN call'[t]

\* C15: into_inner consumes the instance: when it has returned the handle is
\* no longer an instance, it returned the array the instance wrapped and took
\* no other instance away, and every call on a handle (tensor, apply, clone,
\* into_inner, a mutation) starts on a live instance.
C15_IntoInnerConsumes ==
    /\ [](\A t \in Threads : Returned(t, "into_inner") => inst[call[t].h] = NoInst)
    /\ [][\A t \in Threads : StartsOn(t) => inst[call'[t].h] # NoInst]_vars
    /\ [][\A t \in Threads : StartsOn(t) /\ call'[t].op = "into_inner" =>
             /\ ret'[t] = [tag |-> "Tensor", tensor |-> TensorOf(call'[t].h)]
             /\ \A g \in Handles \ {call'[t].h} : inst'[g] = inst[g]]_vars

C15_Witness ==
    /\ Returned(1, "into_inner")
    /\ inst[call[1].h] = NoInst
    /\ \E g \in Handles : Live(g) /\ TensorOf(g) = ret[1].tensor

\* Some thread starts a mutation of a wrapped array in this step.
Mutates == \E t \in Threads : StartsOn(t) /\ call'[t].op \in {"mutate", "assign"}

\* C16: round trip.  The instance new returns wraps the array it was given;
\* while the instance lives and nobody mutates, it keeps wrapping that array;
\* into_inner returns the wrapped array itself, raw and unvalidated.  Hence
\* new(t).into_inner() is t, shape and kind included.
C16_RoundTrip ==
    /\ [](\A t \in Threads : Returned(t, "new") /\ ret[t].tag = "Ok" =>
             TensorOf(ret[t].h) = call[t].tensor)
    /\ [][\A h \in Handles : Live(h) /\ inst'[h] # NoInst /\ ~Mutates =>
             inst'[h] = inst[h] /\ store'[inst[h].st] = store[inst[h].st]]_vars
    /\ [][\A t \in Threads : StartsOn(t) /\ call'[t].op = "into_inner" =>
             ret'[t] = [tag |-> "Tensor", tensor |-> store[inst[call'[t].h].st]]]_vars

C16_Witness ==
    /\ Returned(1, "into_inner")
    /\ \A h \in Handles : ~Live(h)
    /\ ret[1].tensor.data = 1
    /\ PassesValidation(ret[1].tensor, [params |-> [my_param1 |-> ParamFrom(1), my_param2 |-> ParamFrom(2)]])

\* The array a returned new / apply_fn / clone call validated.
Validated(t) == IF call[t].op = "clone" THEN TensorOf(call[t].h) ELSE call[t].tensor
\* The values of [my_param1, my_param2, my_param1, my_param2] in a params record.
RepeatShape(p) ==
    <<p.my_param1.inner, p.my_param2.inner, p.my_param1.inner, p.my_param2.inner>>

\* C17: the expected shape new, apply_fn and clone of the explicit-params
\* variant use is the sequence of the declared fields' values in the params
\* record of the call, in declared order, a field declared twice giving its
\* value at both positions.
C17_ExpectedFromFields ==
    \A t \in Threads :
        Returned(t, "new") \/ Returned(t, "apply") \/ Returned(t, "clone") =>
            /\ ret[t].tag = "Ok" => Validated(t).shape = RepeatShape(call[t].params)
            /\ Validated(t).shape # RepeatShape(call[t].params) =>
                  ret[t] = [tag |-> "ShapeMismatch", type_name |-> "MyTensor2",
                            expected |-> RepeatShape(call[t].params),
                            found |-> Validated(t).shape]

C17_Witness ==
    /\ variant = "R"
    /\ Returned(1, "new")
    /\ call[1].params = [my_param1 |-> [inner |-> 1], my_param2 |-> [inner |-> 2]]
    /\ ret[1].tag = "Ok"
    /\ TensorOf(ret[1].h).shape = <<1, 2, 1, 2>>

\* What the arguments of a call alone say its outcome is.
OutcomeOf(x, p) ==
    IF ~SameShape(x.shape, DeclaredShape(p))
    THEN [tag |-> "ShapeMismatch", type_name |-> "MyTensor",
          expected |-> DeclaredShape(p), found |-> x.shape]
    ELSE IF x.kind # "Double"
    THEN [tag |-> "KindMismatch", type_name |-> "MyTensor",
          expected |-> "Double", found |-> x.kind]
    ELSE [tag |-> "Ok", tensor |-> x]
\* The outcome of a returned call: the error, or Ok and the array now wrapped.
Outcome(t) ==
    IF ret[t].tag = "Ok" THEN [tag |-> "Ok", tensor |-> TensorOf(ret[t].h)] ELSE ret[t]

\* C18: the explicit-params variant keeps no state: the outcome of new,
\* apply_fn and clone is a function of the array and the params record of the
\* call, the same after every history of earlier calls.
C18_Stateless ==
    variant = "E" =>
        \A t \in Threads :
            Returned(t, "new") \/ Returned(t, "apply") \/ Returned(t, "clone") =>
                Outcome(t) = OutcomeOf(Validated(t), call[t].params)

C18_Witness ==
    /\ variant = "E"
    /\ Returned(1, "new")
    /\ ret[1].tag = "Ok"
    /\ \E g \in Handles \ {ret[1].h} :
          Live(g) /\ TensorOf(g).shape # TensorOf(ret[1].h).shape /\ TensorOf(g).kind = "Double"

ErrorTags == {"Uninitialized", "AlreadyInitialized", "ShapeMismatch", "KindMismatch"}

ResultTags(op) ==
    CASE op = "set" -> {"Ok", "AlreadyInitialized"}
      [] op \in {"new", "apply"} -> {"Ok", "Uninitialized", "ShapeMismatch", "KindMismatch"}
      [] op = "clone" -> {"Handle"}
      [] op \in {"get_dims", "get_kind"} -> {"None", "Some"}
      [] op = "is_initialized" -> {"Bool"}
      [] op \in {"tensor", "into_inner"} -> {"Tensor"}

\* C20: no call ends in a panic.  The Once is never poisoned; the DIMS and KIND
\* mutexes are never poisoned and are held only by a thread inside the section
\* that releases them, so no lock().unwrap() or call_once can panic; every
\* call that has returned has returned a value or a typed error.
C20_NoPanic ==
    /\ INIT \in {"incomplete", "running", "complete"}
    /\ dimsLock \in {0} \cup Threads
    /\ dimsLock # 0 => pc[dimsLock] = "set_write"
    /\ kindLock \in {0} \cup Threads
    /\ kindLock # 0 => pc[kindLock] = "new_dims"
    /\ \A t \in Threads : pc[t] = "ret" => ret[t].tag \in ResultTags(call[t].op)

C20_Witness ==
    \E t, u \in Threads :
        /\ kindLock = t
        /\ call[t].op = "apply"
        /\ pc[u] = "get_kind_lock"

\* Thread t makes a step of a call in this step (it starts the call or goes on
\* with it; taking the returned value is not a step of the call).
StepsIn(t) == (pc'[t] # pc[t] \/ call'[t] # call[t]) /\ pc[t] # "ret"

\* C21: get_dims returns None exactly when the registry is Unset at the call,
\* and otherwise Some(shape), the shape being, in declared order, the values of
\* the set call that made the registry Set.
C21_GetDims ==
    /\ [][\A t \in Threads : StepsIn(t) /\ pc[t] = "idle" /\ call'[t].op = "get_dims" =>
             IF INIT = "complete"
             THEN pc'[t] = "get_dims_lock"
             ELSE pc'[t] = "ret" /\ ret'[t] = [tag |-> "None"]]_vars
    /\ [](\A t \in Threads :
            /\ pc[t] = "get_dims_lock" => INIT = "complete"
            /\ Returned(t, "get_dims") =>
                  \/ ret[t] = [tag |-> "None"]
                  \/ /\ okSets # <<>>
                     /\ ret[t] = [tag |-> "Some", value |-> ArgValues(okSets[1][2])])
    /\ [][\A t \in Threads : pc[t] = "get_dims_lock" /\ StepsIn(t) => ret'[t].tag = "Some"]_vars

C21_Witness ==
    \E t \in Threads :
        /\ Returned(t, "get_dims")
        /\ ret[t] = [tag |-> "Some", value |-> <<1, 2>>]
        /\ Len(okSets) = 2
        /\ ArgValues(okSets[2][2]) = <<1, 1>>

\* C22: get_kind returns Some(K), K the declared kind, in every registry
\* state, also on a type on which set was never called.
C22_GetKindAlways ==
    \A t \in Threads : Returned(t, "get_kind") => ret[t] = [tag |-> "Some", value |-> "Float"]

\* C23: only a successful set changes the registry.  A step that changes the
\* Once or the stored shape is a step of a set call past its AlreadyInitialized
\* test, and such a call returns Ok; a set that returns AlreadyInitialized, and
\* every step of is_initialized, get_dims, get_kind, new, apply, clone, tensor
\* and into_inner, leave them as they are; the kind handed out is the declared one.
C23_OnlySetChanges ==
    /\ [][\A t \in Threads :
             (pc'[t] # pc[t] \/ call'[t] # call[t]) /\ (INIT' # INIT \/ DIMS' # DIMS) =>
             /\ call[t].op = "set"
             /\ pc[t] \in {"set_once", "set_write", "set_done"}]_vars
    /\ [][\A t \in Threads : StepsIn(t) /\ pc'[t] = "ret" /\ call'[t].op = "set" =>
             IF pc[t] = "set_check"
             THEN ret'[t].tag = "AlreadyInitialized" /\ INIT' = INIT /\ DIMS' = DIMS
             ELSE ret'[t] = [tag |-> "Ok"]]_vars
    /\ [](\A t \in Threads : Returned(t, "get_kind") /\ ret[t].tag = "Some" =>
             ret[t].value = "Float")

C23_Witness ==
    \E t, u \in Threads :
        /\ Returned(t, "set")
        /\ ret[t].tag = "AlreadyInitialized"
        /\ ArgValues(call[t].args) # DIMS
        /\ Returned(u, "apply")
        /\ ret[u].tag = "ShapeMismatch"
        /\ ret[u].found = ArgValues(call[t].args)

\* C24: the conversions of a parameter type are total and lossless: for every
\* i64 n, P::from(n) is a parameter value, i64::from(P::from(n)) = n and
\* *P::from(n) = n.
C24_ParamRoundTrip ==
    \A t \in Threads : pc[t] = "ret" /\ variant = "P" =>
        /\ call[t].op = "from" => ret[t].tag = "Param"
        /\ call[t].op \in {"into", "deref"} => ret[t] = [tag |-> "I64", value |-> call[t].n]

C24_Witness ==
    /\ Returned(1, "into")
    /\ call[1].n < 0
    /\ ret[1] = [tag |-> "I64", value |-> call[1].n]

InCall(t) == pc[t] \notin {"idle", "ret"}
\* The thread that holds what thread t is waiting for, 0 if t waits for nothing.
Blocker(t) ==
    CASE pc[t] \in {"new_kind", "get_kind_lock"} -> kindLock
      [] pc[t] \in {"new_dims", "get_dims_lock", "set_closure"} -> dimsLock
      [] pc[t] = "set_once" /\ INIT = "running" ->
            CHOOSE u \in Threads : pc[u] \in {"set_closure", "set_write", "set_done"}
      [] OTHER -> 0
\* Thread t waits for a thread that waits for a thread ... that can take a step.
RECURSIVE CanProceed(_, _)
CanProceed(t, k) ==
    \/ ENABLED GlobalStep(t)
    \/ k > 0 /\ Blocker(t) \in Threads \ {t} /\ CanProceed(Blocker(t), k - 1)

Placeholder == [i \in 1..TypesLen |-> 0]
\* The values of the set call that completed the Once.
WinnerShape == ArgValues(okSets[1][2])

\* C26: readers never see a half-initialized registry.  A get_dims that
\* returns Some returns the complete shape of the winning set; a new or apply
\* that gets past the INIT test validates against that shape, so its result is
\* Uninitialized or is decided by that shape; the all-zero placeholder is
\* never handed out nor compared with, also while a set is in progress.
C26_NoHalfInitialized ==
    \A t \in Threads :
        /\ Returned(t, "get_dims") /\ ret[t].tag = "Some" =>
              okSets # <<>> /\ ret[t].value = WinnerShape /\ ret[t].value # Placeholder
        /\ pc[t] \in {"get_dims_lock", "new_kind", "new_dims"} =>
              INIT = "complete" /\ okSets # <<>> /\ DIMS = WinnerShape /\ DIMS # Placeholder
        /\ (Returned(t, "new") \/ Returned(t, "apply")) /\ ret[t].tag # "Uninitialized" =>
              /\ okSets # <<>>
              /\ ret[t].tag = "ShapeMismatch" =>
                    ret[t].expected = WinnerShape /\ ret[t].expected # Placeholder
              /\ ret[t].tag = "Ok" => call[t].tensor.shape = WinnerShape

C26_Witness ==
    \E t, u \in Threads :
        /\ pc[u] = "set_write"
        /\ DIMS[1] # 0 /\ DIMS[TypesLen] = 0
        /\ Returned(t, "get_dims")
        /\ ret[t].tag = "None"

\* Thread t makes a call on wrapper type ty in this step.
CallsOn(t, ty) == pc[t] = "idle" /\ pc'[t] = "ret" /\ "ty" \in DOMAIN call'[t] /\ call'[t].ty = ty

\* C27: the registries of distinct wrapper types are independent.  A call on
\* type A, set included, leaves the Once and the stored shape of every other
\* type as they are, and the result of new on A is decided by A's own Once,
\* shape and kind.
C27_IndependentRegistries ==
    /\ [][\A ty \in TypeNames : CallsOn(1, ty) =>
             \A other \in TypeNames \ {ty} :
                 INIT'[other] = INIT[other] /\ DIMS'[other] = DIMS[other]]_vars
    /\ [](Returned(1, "new") =>
             LET ty == call[1].ty
                 x == call[1].tensor IN
             IF INIT[ty] # "complete"
             THEN ret[1] = [tag |-> "Uninitialized", type_name |-> ty]
             ELSE IF x.kind = "Float" /\ x.shape = DIMS[ty]
             THEN ret[1].tag = "Ok" /\ inst[ret[1].h].ty = ty /\ TensorOf(ret[1].h) = x
             ELSE /\ ret[1].tag \in {"ShapeMismatch", "KindMismatch"}
                  /\ ret[1].type_name = ty
                  /\ ret[1].tag = "ShapeMismatch" =>
                        ret[1].expected = DIMS[ty] /\ ret[1].found = x.shape)

C27_Witness ==
    /\ variant = "T"
    /\ INIT["EncoderInput"] = "complete"
    /\ INIT["DecoderInput"] = "complete"
    /\ DIMS["EncoderInput"] # DIMS["DecoderInput"]
    /\ Returned(1, "new")
    /\ call[1].ty = "EncoderInput"
    /\ call[1].tensor.shape = DIMS["DecoderInput"]
    /\ ret[1].tag = "ShapeMismatch"
    /\ ret[1].expected = DIMS["EncoderInput"]

\* C28: in the global variant, while an instance of the type lives the
\* registry is Set; the receiver of an apply lives throughout the call, and
\* apply and clone never return Uninitialized.
C28_LiveImpliesSet ==
    /\ (\E h \in Handles : Live(h) /\ inst[h].ty = "G") => INIT = "complete"
    /\ \A t \in Threads :
          /\ call[t].op = "apply" /\ InCall(t) => Live(call[t].h) /\ INIT = "complete"
          /\ Returned(t, "apply") \/ Returned(t, "clone") => ret[t].tag # "Uninitialized"

C28_Witness ==
    \E t, u \in Threads :
        /\ Returned(t, "clone")
        /\ Live(ret[t].h) /\ inst[ret[t].h].ty = "G"
        /\ Returned(u, "set")
        /\ ret[u].tag = "AlreadyInitialized"

\* C29: apply / apply_fn leaves the receiver untouched.  Every step of the
\* call finds the receiver live and leaves it on the same storage holding the
\* same array; the step that returns Ok adds one instance on a handle that was
\* free and changes no other; every other step, a return of an error included,
\* changes no instance and no storage.
C29_ApplyLeavesReceiver ==
    [][\A t \in Threads : StepsIn(t) /\ call'[t].op = "apply" =>
          LET h == call'[t].h IN
          /\ Live(h)
          /\ inst'[h] = inst[h]
          /\ store'[inst[h].st] = store[inst[h].st]
          /\ IF pc'[t] = "ret" /\ ret'[t].tag = "Ok"
             THEN /\ ret'[t].h # h
                  /\ ~Live(ret'[t].h)
                  /\ \A g \in Handles \ {ret'[t].h} : inst'[g] = inst[g]
             ELSE inst' = inst /\ store' = store]_vars

C29_Witness ==
    /\ variant = "G"
    /\ Returned(1, "apply")
    /\ ret[1].tag = "KindMismatch"
    /\ Live(call[1].h)
    /\ TensorOf(call[1].h).data = 1
    /\ Cardinality({g \in Handles : Live(g)}) = 1

\* The params record of the explicit-params type whose fields evaluate to shape s.
DocParamsFor(s) == [size0 |-> s[1], size1 |-> s[2]]

\* C30: the two variants agree.  For every array, a new of the global variant
\* after a successful set(s) has the outcome of the new of an explicit-params
\* type declared with the same kind, called with params whose fields evaluate
\* to s: both Ok, or the same error with the same expected and found.
C30_VariantsAgree ==
    \A t \in Threads :
        variant = "G" /\ Returned(t, "new") /\ INIT = "complete" =>
            LET r == ValidateDoc(call[t].tensor, DocParamsFor(DIMS)) IN
            IF r = Pass
            THEN ret[t].tag = "Ok"
            ELSE /\ ret[t].tag = r.tag
                 /\ ret[t].expected = r.expected
                 /\ ret[t].found = r.found

====
